---- MODULE Spec2Model ----
(***************************************************************************)
(* A model of the sparse state quantum simulator QuantumSim                *)
(* (backend/src/simulator.rs).                                             *)
(*                                                                         *)
(* Numbers.  Complex64 amplitudes are modelled exactly.  An amplitude is a *)
(* record [c, r] that stands for the complex number c * sqrt(r), where     *)
(*   c = <<a0, a1, a2, a3, k>> is (a0 + a1*w + a2*w^2 + a3*w^3) / 2^k with  *)
(*       w = exp(i*pi/4) and a0 .. a3 integers (the ring of the gate        *)
(*       constants 1, i, 1/sqrt 2, (1 +- i)/sqrt 2), and                    *)
(*   r = <<p, q, d>> is the positive real (p + q*sqrt 2) / d, the product   *)
(*       of the squares of the real scaling factors 1/sqrt(S) that the     *)
(*       collapses have multiplied into the amplitude.                     *)
(* Both parts are kept in lowest terms, so equal numbers are equal values. *)
(* Floating point rounding is not modelled.                                *)
(***************************************************************************)
EXTENDS Integers, Sequences, FiniteSets, TLC

VARIABLES state, id_map, last, budget

vars == <<state, id_map, last, budget>>

(***************************************************************************)
(* Bounds of the model.                                                    *)
(***************************************************************************)
\* The largest number of qubits live at the same time (Spec, SpecValid).
MaxQubits == 3
\* The longest list of controls, or of jointly measured qubits, tried.
MaxCtls == 2
\* The number of public calls made on one simulator in Spec.
MaxLifeSteps == 7
\* The number of public calls made on one simulator in SpecValid.
MaxSteps == 5
\* The largest number of qubits live at the same time in SpecFull.
MaxFullQubits == 2
\* The number of public calls made on one simulator in SpecFull.
MaxFullSteps == 4
\* The number of qubits of the longest GHZ chain built in SpecGhz.
MaxGhzQubits == 5

(***************************************************************************)
(* Integer helpers.                                                        *)
(***************************************************************************)
Abs(n) == IF n < 0 THEN -n ELSE n

RECURSIVE Gcd(_, _)
Gcd(a, b) == IF b = 0 THEN a ELSE Gcd(b, a % b)

Sgn(n) == IF n > 0 THEN 1 ELSE IF n < 0 THEN -1 ELSE 0

(***************************************************************************)
(* The reals (p + q*sqrt 2) / d, for f64 values.                           *)
(***************************************************************************)
QNorm(xx) ==
    LET g == Gcd(Gcd(Abs(xx[1]), Abs(xx[2])), Abs(xx[3]))
        ss == IF xx[3] < 0 THEN -g ELSE g
    IN  <<xx[1] \div ss, xx[2] \div ss, xx[3] \div ss>>

QZero == <<0, 0, 1>>
QOne == <<1, 0, 1>>

QAdd(xx, yy) ==
    QNorm(<<xx[1] * yy[3] + yy[1] * xx[3], xx[2] * yy[3] + yy[2] * xx[3], xx[3] * yy[3]>>)

QNeg(xx) == <<-xx[1], -xx[2], xx[3]>>

QMul(xx, yy) ==
    QNorm(<<xx[1] * yy[1] + 2 * xx[2] * yy[2], xx[1] * yy[2] + xx[2] * yy[1], xx[3] * yy[3]>>)

\* 1 / x, for x # 0: d * (p - q*sqrt 2) / (p^2 - 2 q^2).
QInv(xx) ==
    QNorm(<<xx[3] * xx[1], -(xx[3] * xx[2]), xx[1] * xx[1] - 2 * xx[2] * xx[2]>>)

\* The sign of p + q*sqrt 2 (the denominator is positive).
QSign(xx) ==
    LET p == xx[1]
        q == xx[2]
    IN  IF p >= 0 /\ q >= 0 THEN (IF p = 0 /\ q = 0 THEN 0 ELSE 1)
        ELSE IF p <= 0 /\ q <= 0 THEN -1
        ELSE IF p > 0 THEN Sgn(p * p - 2 * q * q)
        ELSE Sgn(2 * q * q - p * p)

QLess(xx, yy) == QSign(QAdd(xx, QNeg(yy))) < 0

QLeq(xx, yy) == QSign(QAdd(xx, QNeg(yy))) <= 0

RECURSIVE QSum(_, _)
\* The sum of f[e] over the elements e of the finite set S.
QSum(f, S) ==
    IF S = {} THEN QZero
    ELSE LET e == CHOOSE xx \in S : TRUE
         IN  QAdd(f[e], QSum(f, S \ {e}))

(***************************************************************************)
(* The complex numbers (a + b*w + c*w^2 + d*w^3) / 2^k, w = exp(i*pi/4).   *)
(***************************************************************************)
RECURSIVE ZNorm(_)
ZNorm(zz) ==
    IF zz[5] > 0 /\ zz[1] % 2 = 0 /\ zz[2] % 2 = 0 /\ zz[3] % 2 = 0 /\ zz[4] % 2 = 0
    THEN ZNorm(<<zz[1] \div 2, zz[2] \div 2, zz[3] \div 2, zz[4] \div 2, zz[5] - 1>>)
    ELSE zz

RECURSIVE Pow2(_)
Pow2(n) == IF n = 0 THEN 1 ELSE 2 * Pow2(n - 1)

ZZero == <<0, 0, 0, 0, 0>>
\* Complex64::one()
ZOne == <<1, 0, 0, 0, 0>>
\* Complex64::i()
ZI == <<0, 0, 1, 0, 0>>
\* exp(i*pi/4) = Complex64::new(FRAC_1_SQRT_2, FRAC_1_SQRT_2)
ZOmega == <<0, 1, 0, 0, 0>>
\* The real FRAC_1_SQRT_2 = (w - w^3) / 2.
ZFrac1Sqrt2 == <<0, 1, 0, -1, 1>>

ZNeg(zz) == <<-zz[1], -zz[2], -zz[3], -zz[4], zz[5]>>

ZAdd(xx, yy) ==
    LET m == IF xx[5] > yy[5] THEN xx[5] ELSE yy[5]
        fx == Pow2(m - xx[5])
        fy == Pow2(m - yy[5])
    IN  ZNorm(<<xx[1] * fx + yy[1] * fy, xx[2] * fx + yy[2] * fy,
                xx[3] * fx + yy[3] * fy, xx[4] * fx + yy[4] * fy, m>>)

\* The product, with w^4 = -1.
ZMul(xx, yy) ==
    ZNorm(<<xx[1] * yy[1] - xx[2] * yy[4] - xx[3] * yy[3] - xx[4] * yy[2],
            xx[1] * yy[2] + xx[2] * yy[1] - xx[3] * yy[4] - xx[4] * yy[3],
            xx[1] * yy[3] + xx[2] * yy[2] + xx[3] * yy[1] - xx[4] * yy[4],
            xx[1] * yy[4] + xx[2] * yy[3] + xx[3] * yy[2] + xx[4] * yy[1],
            xx[5] + yy[5]>>)

\* The complex conjugate: w^-1 = -w^3, w^-2 = -w^2, w^-3 = -w.
ZConj(zz) == <<zz[1], -zz[4], -zz[3], -zz[2], zz[5]>>

RECURSIVE ZPow(_, _)
ZPow(zz, n) == IF n = 0 THEN ZOne ELSE ZMul(zz, ZPow(zz, n - 1))

\* |z|^2 = (a^2 + b^2 + c^2 + d^2 + (ab + bc + cd - da) sqrt 2) / 4^k.
ZAbs2(zz) ==
    QNorm(<<zz[1] * zz[1] + zz[2] * zz[2] + zz[3] * zz[3] + zz[4] * zz[4],
            zz[1] * zz[2] + zz[2] * zz[3] + zz[3] * zz[4] - zz[4] * zz[1],
            Pow2(2 * zz[5])>>)

(***************************************************************************)
(* Complex64 values: [c, r] is c * sqrt(r).                                *)
(***************************************************************************)
Amp(zz) == [c |-> zz, r |-> QOne]

\* Complex64 * Complex64, the right operand a constant of the ring.
CMul(v, c) == [c |-> ZMul(v.c, c), r |-> v.r]

\* Complex64 + Complex64 of two stored amplitudes.  Stored amplitudes carry
\* the same real scale r (ScaleUniform), so the sum is the sum of the z parts.
CAdd(v, w) == [c |-> ZAdd(v.c, w.c), r |-> v.r]

\* A variant of CSub that adds.
CSubAdds(v, w) == [c |-> ZAdd(v.c, w.c), r |-> v.r]

CSub(v, w) == [c |-> ZAdd(v.c, ZNeg(w.c)), r |-> v.r]

\* A variant of CScale that does not scale.
CScaleNone(v, S) == v

\* Complex64 *= f64, for the scaling 1.0 / S.sqrt(): the square of the
\* scaling goes into r.
CScale(v, S) == [c |-> v.c, r |-> QMul(v.r, QInv(S))]

\* Complex64::norm_sqr
NormSqr(v) == QMul(v.r, ZAbs2(v.c))

\* NearlyZero::is_nearly_zero for Complex64: both components within 1e-10 of
\* zero.  The computed amplitudes of the bounded runs are either exactly zero
\* or of squared magnitude at least 1/1024 (AmplitudesNotTiny checks the
\* stored ones, and every computed amplitude that is not zero is stored), so
\* on these runs the test is the test for exact zero.
IsNearlyZero(v) == v.c = ZZero

(***************************************************************************)
(* BigUint keys.                                                           *)
(***************************************************************************)
\* BigUint::bit
Bit(k, i) == (k \div Pow2(i)) % 2 = 1

\* BigUint::set_bit
SetBit(k, i, b) ==
    IF Bit(k, i) = b THEN k
    ELSE IF b THEN k + Pow2(i) ELSE k - Pow2(i)

\* index ^ flipped, flipped the key with only bit i set
FlipBit(k, i) == SetBit(k, i, ~Bit(k, i))

\* The map built by inserting the (key, value) pairs of P into an empty map.
MapOf(P) ==
    [k \in {p[1] : p \in P} |-> (CHOOSE p \in P : p[1] = k)[2]]

EmptyMap == [k \in {} |-> 0]

(***************************************************************************)
(* Arguments of the calls.                                                 *)
(***************************************************************************)
\* Lists of at most MaxCtls identifiers from the set S (controls, jointly
\* measured qubits), repeats included.
ListsOf(S) == UNION {[1 .. n -> S] : n \in 0 .. MaxCtls}

\* Qubit identifiers passed by the caller in Spec: every identifier that can
\* be live (allocate hands out the smallest free one), live or not at the call.
Ids == 0 .. MaxQubits - 1

IdLists == ListsOf(Ids)

\* The same for SpecFull.
FullIds == 0 .. MaxFullQubits - 1

FullLists == ListsOf(FullIds)

\* Rotation angles theta, as the integer m with theta = m * pi / 2:
\* 0, pi/2, pi and 2 pi.
Angles == {0, 1, 2, 4}

\* The real 2.0 as a Complex64.
ZTwo == <<2, 0, 0, 0, 0>>

\* Phases passed to mcphase: i and exp(i pi/4), and the non-unit 2 and 0.
Phases == {ZI, ZOmega, ZTwo, ZZero}

(***************************************************************************)
(* The record of the last call: the operation, its arguments, how it       *)
(* ended ("ok", or the panic: "unknown" identifier, "duplicate"), the      *)
(* identifier returned or named in the panic message, the boolean result   *)
(* (for release, the internal measurement's), and the probability          *)
(* returned.                                                               *)
(***************************************************************************)
Call(op, ids, theta, phase, status, id, res, prob) ==
    [op |-> op, ids |-> ids, theta |-> theta, phase |-> phase,
     status |-> status, id |-> id, res |-> res, prob |-> prob]

Ok(op, ids) == Call(op, ids, 0, ZOne, "ok", -1, FALSE, QZero)

Panic(op, ids, theta, phase, status, id) ==
    Call(op, ids, theta, phase, status, id, FALSE, QZero)

\* A panic ends the run: no call follows it.  budget is the number of calls
\* the run may still make.
Running == last.status \in {"new", "ok"} /\ budget > 0

(***************************************************************************)
(* QuantumSim::new                                                         *)
(***************************************************************************)
New ==
    /\ state = EmptyMap
    /\ id_map = EmptyMap
    /\ last = Call("new", <<>>, 0, ZOne, "new", -1, FALSE, QZero)

(***************************************************************************)
(* allocate                                                                *)
(***************************************************************************)
RECURSIVE SortedSeq(_)
\* The elements of a finite set of integers in ascending order
\* (collect, then sort).
SortedSeq(S) ==
    IF S = {} THEN <<>>
    ELSE LET m == CHOOSE xx \in S : \A yy \in S : xx <= yy
         IN  <<m>> \o SortedSeq(S \ {m})

\* A variant of NewKey that hands out the number of live qubits.
NewKeyCount(map) == Cardinality(DOMAIN map)

\* sorted_keys.iter().enumerate().take_while(|(index, key)| index == **key)
\*     .last().map_or(0, |(_, &&key)| key + 1)
NewKey(map) ==
    LET sorted_keys == SortedSeq(DOMAIN map)
        taken == {i \in 1 .. Len(sorted_keys) :
                     \A j \in 1 .. i : sorted_keys[j] = j - 1}
    IN  IF taken = {} THEN 0
        ELSE sorted_keys[CHOOSE i \in taken : \A j \in taken : j <= i] + 1

\* HashMap::insert
Insert(map, k, v) == [xx \in DOMAIN map \cup {k} |-> IF xx = k THEN v ELSE map[xx]]

\* HashMap::remove
Remove(map, k) == [xx \in DOMAIN map \ {k} |-> map[xx]]

allocate ==
    /\ Running
    /\ LET n_qubits == Cardinality(DOMAIN id_map)
           new_key == NewKey(id_map)
       IN  /\ state' = IF DOMAIN id_map = {}
                       THEN Insert(state, 0, Amp(ZOne))
                       ELSE state
           /\ id_map' = Insert(id_map, new_key, n_qubits)
           /\ last' = Call("allocate", <<>>, 0, ZOne, "ok", new_key, FALSE, QZero)
    /\ budget' = budget - 1

(***************************************************************************)
(* swap_qubit_state, check_joint_probability, joint_collapse               *)
(***************************************************************************)
\* A variant of swap_qubit_state that flips only the bit of qubit1.
swap_qubit_state_one(st, qubit1, qubit2) ==
    IF qubit1 = qubit2 THEN st
    ELSE MapOf({<<IF Bit(k, qubit1) = Bit(k, qubit2) THEN k
                  ELSE FlipBit(k, qubit1),
                  st[k]>> : k \in DOMAIN st})

swap_qubit_state(st, qubit1, qubit2) ==
    IF qubit1 = qubit2 THEN st
    ELSE MapOf({<<IF Bit(k, qubit1) = Bit(k, qubit2) THEN k
                  ELSE FlipBit(FlipBit(k, qubit1), qubit2),
                  st[k]>> : k \in DOMAIN st})

\* (index & mask).count_ones() & 1 > 0, mask the key with the bits locs set
OddParity(k, locs) == Cardinality({l \in locs : Bit(k, l)}) % 2 = 1

\* A variant of check_joint_probability that sums the entries with any of the
\* bits set.
check_joint_probability_any(st, locs) ==
    LET f == [k \in DOMAIN st |-> NormSqr(st[k])]
    IN  QSum(f, {k \in DOMAIN st : \E l \in locs : Bit(k, l)})

check_joint_probability(st, locs) ==
    LET f == [k \in DOMAIN st |-> NormSqr(st[k])]
    IN  QSum(f, {k \in DOMAIN st : OddParity(k, locs)})

\* The keys joint_collapse keeps.
Retained(st, locs, val) == {k \in DOMAIN st : OddParity(k, locs) = val}

\* A variant of joint_collapse that keeps every entry.
joint_collapse_all(st, locs, val) ==
    LET f == [k \in DOMAIN st |-> NormSqr(st[k])]
        scaling_denominator == QSum(f, DOMAIN st)
    IN  [k \in DOMAIN st |-> CScale(st[k], scaling_denominator)]

joint_collapse(st, locs, val) ==
    LET kept == Retained(st, locs, val)
        f == [k \in DOMAIN st |-> NormSqr(st[k])]
        scaling_denominator == QSum(f, kept)
    IN  [k \in kept |-> CScale(st[k], scaling_denominator)]

\* A variant of Outcomes in which the sample decides, whatever prob is.
OutcomesAny(prob) == BOOLEAN

\* The values of random_sample < prob for the samples of [0, 1).
Outcomes(prob) ==
    {b \in BOOLEAN : IF b THEN QLess(QZero, prob) ELSE QLess(prob, QOne)}

\* The set of the locations in a list.
Range(ss) == {ss[i] : i \in 1 .. Len(ss)}

(***************************************************************************)
(* release                                                                 *)
(***************************************************************************)
\* id_map.iter().find(|(_, &value)| value == loc).unwrap().0
IdAt(map, loc) == CHOOSE i \in DOMAIN map : map[i] = loc

\* A variant of ReleaseSwapMap that does not move the identifier of the last
\* location.
ReleaseSwapMapNoMove(map, id) ==
    [xx \in DOMAIN map |->
        IF xx = id THEN Cardinality(DOMAIN map) - 1 ELSE map[xx]]

\* The map and the store after the swap of release (lines 83-93).
ReleaseSwapMap(map, id) ==
    LET loc == map[id]
        last_loc == Cardinality(DOMAIN map) - 1
        last_id == IdAt(map, last_loc)
    IN  IF last_loc # loc
        THEN [xx \in DOMAIN map |->
                 IF xx = id THEN last_loc
                 ELSE IF xx = last_id THEN loc ELSE map[xx]]
        ELSE map

\* A variant of ReleaseSwapState that does not swap.
ReleaseSwapStateNone(st, map, id) == st

ReleaseSwapState(st, map, id) ==
    LET loc == map[id]
        last_loc == Cardinality(DOMAIN map) - 1
    IN  IF last_loc # loc THEN swap_qubit_state(st, loc, last_loc) ELSE st

\* A variant of ReleaseCleanup that toggles the bit when the outcome was false.
ReleaseCleanupInverted(st, qubit, res) ==
    IF ~res THEN MapOf({<<FlipBit(k, qubit), st[k]>> : k \in DOMAIN st})
    ELSE st

\* A variant of ReleaseCleanup that leaves the keys as they are.
ReleaseCleanupKeep(st, qubit, res) == st

\* The cleanup of release (lines 100-111): when the outcome was true, the bit
\* at the vacated location is toggled in every key.
ReleaseCleanup(st, qubit, res) ==
    IF res THEN MapOf({<<FlipBit(k, qubit), st[k]>> : k \in DOMAIN st})
    ELSE st

\* The store after release(id) when the internal measurement sampled res.
ReleaseState(st, map, id, res) ==
    LET last_loc == Cardinality(DOMAIN map) - 1
        swapped == ReleaseSwapState(st, map, id)
        measured == joint_collapse(swapped, {last_loc}, res)
    IN  ReleaseCleanup(measured, last_loc, res)

\* The outcomes the internal measurement of release(id) can sample.
ReleaseOutcomes(st, map, id) ==
    LET last_loc == Cardinality(DOMAIN map) - 1
    IN  Outcomes(check_joint_probability(ReleaseSwapState(st, map, id), {last_loc}))

release(id) ==
    /\ Running
    /\ IF id \notin DOMAIN id_map
       THEN /\ last' = Panic("release", <<id>>, 0, ZOne, "unknown", id)
            /\ UNCHANGED <<state, id_map>>
       ELSE \E res \in ReleaseOutcomes(state, id_map, id) :
              /\ state' = ReleaseState(state, id_map, id, res)
              /\ id_map' = Remove(ReleaseSwapMap(id_map, id), id)
              /\ last' = Call("release", <<id>>, 0, ZOne, "ok", -1, res, QZero)
    /\ budget' = budget - 1

(***************************************************************************)
(* dump                                                                    *)
(***************************************************************************)
\* A variant of DumpStep that relabels the map and leaves the store.
DumpStepMapOnly(sm, index, key) ==
    IF index # sm.map[key]
    THEN LET swapped_key == IdAt(sm.map, index)
         IN  [st |-> sm.st,
              map |-> [xx \in DOMAIN sm.map |->
                          IF xx = key THEN index
                          ELSE IF xx = swapped_key THEN sm.map[key]
                          ELSE sm.map[xx]]]
    ELSE sm

\* One step of the for_each of dump, for the key at position index.
DumpStep(sm, index, key) ==
    IF index # sm.map[key]
    THEN LET swapped_key == IdAt(sm.map, index)
         IN  [st |-> swap_qubit_state(sm.st, sm.map[key], index),
              map |-> [xx \in DOMAIN sm.map |->
                          IF xx = key THEN index
                          ELSE IF xx = swapped_key THEN sm.map[key]
                          ELSE sm.map[xx]]]
    ELSE sm

RECURSIVE DumpLoop(_, _, _)
\* The for_each over sorted_keys, from position index on.
DumpLoop(sm, sorted_keys, index) ==
    IF index >= Len(sorted_keys) THEN sm
    ELSE DumpLoop(DumpStep(sm, index, sorted_keys[index + 1]), sorted_keys, index + 1)

Dumped(st, map) == DumpLoop([st |-> st, map |-> map], SortedSeq(DOMAIN map), 0)

dump ==
    /\ Running
    /\ state' = Dumped(state, id_map).st
    /\ id_map' = Dumped(state, id_map).map
    /\ last' = Ok("dump", <<>>)
    /\ budget' = budget - 1

(***************************************************************************)
(* joint_probability, measure, joint_measure, swap_qubit_ids               *)
(***************************************************************************)
\* A variant of Duplicate that finds none.
DuplicateNone(ss) == -1

\* The duplicate that the try_fold over the sorted list breaks on: the
\* smallest value that occurs twice; -1 when there is none.
Duplicate(ss) ==
    LET dups == {ss[i] : i \in {i \in 1 .. Len(ss) :
                                  \E j \in 1 .. Len(ss) : j # i /\ ss[j] = ss[i]}}
    IN  IF dups = {} THEN -1
        ELSE CHOOSE d \in dups : \A e \in dups : d <= e

\* The first identifier of the list that is not in the map; -1 when all are.
FirstUnknown(map, ids) ==
    LET bad == {i \in 1 .. Len(ids) : ids[i] \notin DOMAIN map}
    IN  IF bad = {} THEN -1
        ELSE ids[CHOOSE i \in bad : \A j \in bad : i <= j]

\* ids.iter().map(|id| id_map.get(id)...).collect()
Locs(map, ids) == [i \in 1 .. Len(ids) |-> map[ids[i]]]

joint_probability(ids) ==
    /\ Running
    /\ UNCHANGED <<state, id_map>>
    /\ last' = IF Duplicate(ids) # -1
               THEN Panic("joint_probability", ids, 0, ZOne, "duplicate", Duplicate(ids))
               ELSE IF FirstUnknown(id_map, ids) # -1
               THEN Panic("joint_probability", ids, 0, ZOne, "unknown",
                          FirstUnknown(id_map, ids))
               ELSE Call("joint_probability", ids, 0, ZOne, "ok", -1, FALSE,
                         check_joint_probability(state, Range(Locs(id_map, ids))))
    /\ budget' = budget - 1

\* measure_impl: the store after the collapse on the sampled res.
measure_impl(st, loc, res) == joint_collapse(st, {loc}, res)

measure(id) ==
    /\ Running
    /\ IF id \notin DOMAIN id_map
       THEN /\ last' = Panic("measure", <<id>>, 0, ZOne, "unknown", id)
            /\ UNCHANGED state
       ELSE \E res \in Outcomes(check_joint_probability(state, {id_map[id]})) :
              /\ state' = measure_impl(state, id_map[id], res)
              /\ last' = Call("measure", <<id>>, 0, ZOne, "ok", -1, res, QZero)
    /\ UNCHANGED id_map
    /\ budget' = budget - 1

joint_measure(ids) ==
    /\ Running
    /\ IF Duplicate(ids) # -1
       THEN /\ last' = Panic("joint_measure", ids, 0, ZOne, "duplicate", Duplicate(ids))
            /\ UNCHANGED state
       ELSE IF FirstUnknown(id_map, ids) # -1
       THEN /\ last' = Panic("joint_measure", ids, 0, ZOne, "unknown",
                             FirstUnknown(id_map, ids))
            /\ UNCHANGED state
       ELSE LET locs == Range(Locs(id_map, ids))
            IN  \E res \in Outcomes(check_joint_probability(state, locs)) :
                  /\ state' = joint_collapse(state, locs, res)
                  /\ last' = Call("joint_measure", ids, 0, ZOne, "ok", -1, res, QZero)
    /\ UNCHANGED id_map
    /\ budget' = budget - 1

\* A variant of SwappedIds that makes only the first of the two assignments.
SwappedIdsFirstOnly(map, qubit1, qubit2) == [map EXCEPT ![qubit1] = map[qubit2]]

\* The map after the two assignments of swap_qubit_ids (lines 326-327).
SwappedIds(map, qubit1, qubit2) ==
    LET qubit1_mapped == map[qubit1]
        qubit2_mapped == map[qubit2]
        first == [map EXCEPT ![qubit1] = qubit2_mapped]
    IN  [first EXCEPT ![qubit2] = qubit1_mapped]

swap_qubit_ids(qubit1, qubit2) ==
    /\ Running
    /\ IF FirstUnknown(id_map, <<qubit1, qubit2>>) # -1
       THEN /\ last' = Panic("swap_qubit_ids", <<qubit1, qubit2>>, 0, ZOne, "unknown",
                             FirstUnknown(id_map, <<qubit1, qubit2>>))
            /\ UNCHANGED id_map
       ELSE /\ id_map' = SwappedIds(id_map, qubit1, qubit2)
            /\ last' = Ok("swap_qubit_ids", <<qubit1, qubit2>>)
    /\ UNCHANGED state
    /\ budget' = budget - 1

(***************************************************************************)
(* resolve_and_check_qubits                                                *)
(***************************************************************************)
\* The panic of resolve_and_check_qubits, or "ok": the target is looked up
\* first, then the controls in order, then the sorted list of the resolved
\* locations is searched for a duplicate, which the message names.
resolve_and_check_qubits(map, target, ctls) ==
    IF target \notin DOMAIN map
    THEN [status |-> "unknown", id |-> target]
    ELSE IF FirstUnknown(map, ctls) # -1
    THEN [status |-> "unknown", id |-> FirstUnknown(map, ctls)]
    ELSE LET sorted_qubits == Locs(map, ctls) \o <<map[target]>>
         IN  IF Duplicate(sorted_qubits) # -1
             THEN [status |-> "duplicate", id |-> Duplicate(sorted_qubits)]
             ELSE [status |-> "ok", id |-> -1]

\* A variant of AllSet that takes the controls as set in every key.
AllSetAlways(k, ctls) == TRUE

\* ctls.iter().all(|c| index.bit(*c))
AllSet(k, ctls) == \A l \in ctls : Bit(k, l)

(***************************************************************************)
(* The transforms of the local gates and controlled_gate.  A transform     *)
(* maps (index, val, target) to the pair <<index, val>>.                   *)
(***************************************************************************)
x_transform(index, val, target) == <<FlipBit(index, target), val>>

\* A variant of y_transform that multiplies by +i whatever the new bit is.
y_transform_plus(index, val, target) ==
    <<FlipBit(index, target), CMul(val, ZI)>>

y_transform(index, val, target) ==
    <<FlipBit(index, target),
      CMul(val, IF Bit(FlipBit(index, target), target) THEN ZI ELSE ZNeg(ZI))>>

phase_transform(phase, index, val, target) ==
    <<index, CMul(val, IF Bit(index, target) THEN phase ELSE ZOne)>>

\* A variant of z_transform that negates whatever the target bit is.
z_transform_all(index, val, target) == <<index, CMul(val, ZNeg(ZOne))>>

z_transform(index, val, target) == phase_transform(ZNeg(ZOne), index, val, target)

s_transform(index, val, target) == phase_transform(ZI, index, val, target)

sadj_transform(index, val, target) == phase_transform(ZNeg(ZI), index, val, target)

t_transform(index, val, target) == phase_transform(ZOmega, index, val, target)

\* A variant of tadj_transform with the phase -i of sadj.
tadj_transform_sadj(index, val, target) ==
    phase_transform(ZNeg(ZI), index, val, target)

\* Complex64::new(FRAC_1_SQRT_2, -FRAC_1_SQRT_2) = w^-1
tadj_transform(index, val, target) ==
    phase_transform(ZConj(ZOmega), index, val, target)

\* The powers w^0 .. w^7 of w = exp(i * pi / 4).
WPowers == [m \in 0 .. 7 |-> ZPow(ZOmega, m)]

\* exp(i * m * pi / 4)
WPow(m) == WPowers[m % 8]

\* theta = m * pi / 2: exp(i * theta/2 * (+1 or -1)) = w^m or w^-m
rz_transform(index, val, theta, target) ==
    <<index, CMul(val, IF Bit(index, target) THEN WPow(theta) ELSE WPow(-theta))>>

\* The closure a gate hands to controlled_gate: the transform it names and
\* the angle or phase it captures.
Closure(kind, theta, phase) == [kind |-> kind, theta |-> theta, phase |-> phase]

\* op(index, val, target) for the closure op.
Apply(op, index, val, target) ==
    CASE op.kind = "x" -> x_transform(index, val, target)
      [] op.kind = "y" -> y_transform(index, val, target)
      [] op.kind = "phase" -> phase_transform(op.phase, index, val, target)
      [] op.kind = "z" -> z_transform(index, val, target)
      [] op.kind = "s" -> s_transform(index, val, target)
      [] op.kind = "sadj" -> sadj_transform(index, val, target)
      [] op.kind = "t" -> t_transform(index, val, target)
      [] op.kind = "tadj" -> tadj_transform(index, val, target)
      [] op.kind = "rz" -> rz_transform(index, val, op.theta, target)

controlled_gate(st, ctls, target, op) ==
    LET kv(k) == IF AllSet(k, ctls)
                 THEN Apply(op, k, st[k], target)
                 ELSE <<k, st[k]>>
    IN  MapOf({kv(k) : k \in {i \in DOMAIN st : ~IsNearlyZero(kv(i)[2])}})

(***************************************************************************)
(* mch and mcrotation: the new store, from resolved locations.             *)
(***************************************************************************)
\* What the loop body of mch inserts for the entry at index.
MchInserts(st, ctls, target, index) ==
    LET value == st[index]
        flipped_index == FlipBit(index, target)
    IN  IF AllSet(index, ctls)
        THEN IF flipped_index \notin DOMAIN st
             THEN {<<SetBit(index, target, FALSE), CMul(value, ZFrac1Sqrt2)>>,
                   <<SetBit(index, target, TRUE),
                     CMul(CMul(value, ZFrac1Sqrt2),
                          IF Bit(index, target) THEN ZNeg(ZOne) ELSE ZOne)>>}
             ELSE IF ~Bit(index, target)
             THEN LET flipped_value == st[flipped_index]
                      sum == CAdd(value, flipped_value)
                      diff == CSub(value, flipped_value)
                  IN  (IF ~IsNearlyZero(sum)
                       THEN {<<index, CMul(sum, ZFrac1Sqrt2)>>} ELSE {})
                      \cup
                      (IF ~IsNearlyZero(diff)
                       THEN {<<flipped_index, CMul(diff, ZFrac1Sqrt2)>>} ELSE {})
             ELSE {}
        ELSE {<<index, value>>}

MchState(st, ctls, target) ==
    MapOf(UNION {MchInserts(st, ctls, target, k) : k \in DOMAIN st})

\* 0.5 as a Complex64
ZHalf == <<1, 0, 0, 0, 1>>

\* m00 = cos(theta / 2), theta = m * pi / 2
M00(theta) == ZMul(ZAdd(WPow(theta), WPow(-theta)), ZHalf)

\* m01 = Complex64::new(0, sin(theta / -2)) * (-i if sign_flip, else 1)
M01(theta, sign_flip) ==
    ZMul(ZMul(ZAdd(WPow(-theta), ZNeg(WPow(theta))), ZHalf),
         IF sign_flip THEN ZNeg(ZI) ELSE ZOne)

M10(theta, sign_flip) ==
    ZMul(M01(theta, sign_flip), IF sign_flip THEN ZNeg(ZOne) ELSE ZOne)

\* What the loop body of mcrotation inserts for the entry at index.
RotInserts(st, ctls, target, theta, sign_flip, index) ==
    LET value == st[index]
        flipped_index == FlipBit(index, target)
        m00 == M00(theta)
        m01 == M01(theta, sign_flip)
        m10 == M10(theta, sign_flip)
    IN  IF AllSet(index, ctls)
        THEN IF flipped_index \notin DOMAIN st
             THEN IF Bit(index, target)
                  THEN {<<flipped_index, CMul(value, m01)>>,
                        <<index, CMul(value, m00)>>}
                  ELSE {<<index, CMul(value, m00)>>,
                        <<flipped_index, CMul(value, m10)>>}
             ELSE IF ~Bit(index, target)
             THEN LET flipped_val == st[flipped_index]
                      new0 == CAdd(CMul(value, m00), CMul(flipped_val, m01))
                      new1 == CAdd(CMul(value, m10), CMul(flipped_val, m00))
                  IN  (IF ~IsNearlyZero(new0) THEN {<<index, new0>>} ELSE {})
                      \cup
                      (IF ~IsNearlyZero(new1) THEN {<<flipped_index, new1>>} ELSE {})
             ELSE {}
        ELSE {<<index, value>>}

RotState(st, ctls, target, theta, sign_flip) ==
    MapOf(UNION {RotInserts(st, ctls, target, theta, sign_flip, k) : k \in DOMAIN st})

(***************************************************************************)
(* The public gates.  Gate(...) is a call that first resolves and checks   *)
(* its qubits (a panic leaves the simulator as it was) and then replaces   *)
(* the store: mch builds the new store itself, every other gate goes       *)
(* through controlled_gate with its closure.                               *)
(***************************************************************************)
\* The store after a gate of the given kind on resolved locations.
GateState(st, cl, tl, kind, theta, phase) ==
    IF kind = "h"
    THEN MchState(st, cl, tl)
    ELSE controlled_gate(st, cl, tl, Closure(kind, theta, phase))

Gate(op, ctls, target, theta, phase, kind) ==
    /\ Running
    /\ LET chk == resolve_and_check_qubits(id_map, target, ctls)
       IN  IF chk.status # "ok"
           THEN /\ last' = Panic(op, ctls \o <<target>>, theta, phase,
                                 chk.status, chk.id)
                /\ UNCHANGED state
           ELSE /\ state' = GateState(state, Range(Locs(id_map, ctls)),
                                       id_map[target], kind, theta, phase)
                /\ last' = Call(op, ctls \o <<target>>, theta, phase,
                                "ok", -1, FALSE, QZero)
    /\ UNCHANGED id_map
    /\ budget' = budget - 1

Local(op, ctls, target, kind) == Gate(op, ctls, target, 0, ZOne, kind)

mcx(ctls, target) == Local("mcx", ctls, target, "x")

x(target) == Local("x", <<>>, target, "x")

mcy(ctls, target) == Local("mcy", ctls, target, "y")

y(target) == Local("y", <<>>, target, "y")

mcphase(ctls, phase, target) ==
    Gate("mcphase", ctls, target, 0, phase, "phase")

mcz(ctls, target) == Local("mcz", ctls, target, "z")

z(target) == Local("z", <<>>, target, "z")

mcs(ctls, target) == Local("mcs", ctls, target, "s")

s(target) == Local("s", <<>>, target, "s")

mcsadj(ctls, target) == Local("mcsadj", ctls, target, "sadj")

sadj(target) == Local("sadj", <<>>, target, "sadj")

mct(ctls, target) == Local("mct", ctls, target, "t")

t(target) == Local("t", <<>>, target, "t")

mctadj(ctls, target) == Local("mctadj", ctls, target, "tadj")

tadj(target) == Local("tadj", <<>>, target, "tadj")

RzGate(op, ctls, theta, target) == Gate(op, ctls, target, theta, ZOne, "rz")

mcrz(ctls, theta, target) == RzGate("mcrz", ctls, theta, target)

rz(theta, target) == RzGate("rz", <<>>, theta, target)

HGate(op, ctls, target) == Gate(op, ctls, target, 0, ZOne, "h")

mch(ctls, target) == HGate("mch", ctls, target)

h(target) == HGate("h", <<>>, target)

\* mcrotation: the Pauli shortcut goes through mcy or mcx (which resolve and
\* check), the identity shortcut returns at once, and otherwise the qubits
\* are resolved and checked and the pairs merged.
mcrotation(op, ctls, theta, target, sign_flip) ==
    /\ Running
    /\ LET m00 == Amp(M00(theta))
           m01 == Amp(M01(theta, sign_flip))
           chk == resolve_and_check_qubits(id_map, target, ctls)
           tl == id_map[target]
           cl == Range(Locs(id_map, ctls))
           done == Call(op, ctls \o <<target>>, theta, ZOne, "ok", -1, FALSE, QZero)
       IN  IF ~IsNearlyZero(m00) /\ IsNearlyZero(m01)
           THEN /\ last' = done
                /\ UNCHANGED state
           ELSE IF chk.status # "ok"
           THEN /\ last' = Panic(op, ctls \o <<target>>, theta, ZOne,
                                 chk.status, chk.id)
                /\ UNCHANGED state
           ELSE /\ state' = IF IsNearlyZero(m00)
                            THEN IF sign_flip
                                 THEN controlled_gate(state, cl, tl,
                                                      Closure("y", 0, ZOne))
                                 ELSE controlled_gate(state, cl, tl,
                                                      Closure("x", 0, ZOne))
                            ELSE RotState(state, cl, tl, theta, sign_flip)
                /\ last' = done
    /\ UNCHANGED id_map
    /\ budget' = budget - 1

rx(theta, target) == mcrotation("rx", <<>>, theta, target, FALSE)

mcrx(ctls, theta, target) == mcrotation("mcrx", ctls, theta, target, FALSE)

ry(theta, target) == mcrotation("ry", <<>>, theta, target, TRUE)

mcry(ctls, theta, target) == mcrotation("mcry", ctls, theta, target, TRUE)

(***************************************************************************)
(* Specifications.                                                         *)
(***************************************************************************)
\* The lifecycle of the qubits: allocation, release, relabelling, dump and
\* measurement with any identifiers, live or not, and the gates x, h and mcx
\* to prepare basis, superposed and entangled states.
Init == New /\ budget = MaxLifeSteps

NextLife ==
    \/ Cardinality(DOMAIN id_map) < MaxQubits /\ allocate
    \/ \E id \in Ids : release(id)
    \/ dump
    \/ \E a \in Ids, b \in Ids : swap_qubit_ids(a, b)
    \/ \E ids \in IdLists : joint_probability(ids)
    \/ \E id \in Ids : measure(id)
    \/ \E ids \in IdLists : joint_measure(ids)
    \/ \E id \in Ids : x(id)
    \/ \E id \in Ids : h(id)
    \/ \E ids \in IdLists, id \in Ids : mcx(ids, id)

Spec == Init /\ [][NextLife]_vars

\* Every public operation with every argument, valid or not.
InitFull == New /\ budget = MaxFullSteps

NextFull ==
    \/ Cardinality(DOMAIN id_map) < MaxFullQubits /\ allocate
    \/ \E id \in FullIds : release(id)
    \/ dump
    \/ \E a \in FullIds, b \in FullIds : swap_qubit_ids(a, b)
    \/ \E ids \in FullLists : joint_probability(ids)
    \/ \E id \in FullIds : measure(id)
    \/ \E ids \in FullLists : joint_measure(ids)
    \/ \E id \in FullIds : x(id)
    \/ \E ids \in FullLists, id \in FullIds : mcx(ids, id)
    \/ \E id \in FullIds : y(id)
    \/ \E ids \in FullLists, id \in FullIds : mcy(ids, id)
    \/ \E ids \in FullLists, ph \in Phases, id \in FullIds : mcphase(ids, ph, id)
    \/ \E id \in FullIds : z(id)
    \/ \E ids \in FullLists, id \in FullIds : mcz(ids, id)
    \/ \E id \in FullIds : s(id)
    \/ \E ids \in FullLists, id \in FullIds : mcs(ids, id)
    \/ \E id \in FullIds : sadj(id)
    \/ \E ids \in FullLists, id \in FullIds : mcsadj(ids, id)
    \/ \E id \in FullIds : t(id)
    \/ \E ids \in FullLists, id \in FullIds : mct(ids, id)
    \/ \E id \in FullIds : tadj(id)
    \/ \E ids \in FullLists, id \in FullIds : mctadj(ids, id)
    \/ \E th \in Angles, id \in FullIds : rz(th, id)
    \/ \E ids \in FullLists, th \in Angles, id \in FullIds : mcrz(ids, th, id)
    \/ \E id \in FullIds : h(id)
    \/ \E ids \in FullLists, id \in FullIds : mch(ids, id)
    \/ \E th \in Angles, id \in FullIds : rx(th, id)
    \/ \E ids \in FullLists, th \in Angles, id \in FullIds : mcrx(ids, th, id)
    \/ \E th \in Angles, id \in FullIds : ry(th, id)
    \/ \E ids \in FullLists, th \in Angles, id \in FullIds : mcry(ids, th, id)

SpecFull == InitFull /\ [][NextFull]_vars

\* The live identifiers.
Live == DOMAIN id_map

\* The ascending lists of at most MaxCtls distinct identifiers of S.
DistinctLists(S) ==
    {SortedSeq(T) : T \in {U \in SUBSET S : Cardinality(U) <= MaxCtls}}

\* The control lists valid with the target id.
Ctls(id) == DistinctLists(Live \ {id})

InitValid == New /\ budget = MaxSteps

\* Every public operation, with the arguments that no call panics on: live
\* identifiers, and lists of distinct live identifiers.
NextValid ==
    \/ Cardinality(DOMAIN id_map) < MaxQubits /\ allocate
    \/ \E id \in Live : release(id)
    \/ dump
    \/ \E a \in Live, b \in Live : swap_qubit_ids(a, b)
    \/ \E ids \in DistinctLists(Live) : joint_probability(ids)
    \/ \E id \in Live : measure(id)
    \/ \E ids \in DistinctLists(Live) : joint_measure(ids)
    \/ \E id \in Live : x(id)
    \/ \E id \in Live : \E ids \in Ctls(id) : mcx(ids, id)
    \/ \E id \in Live : y(id)
    \/ \E id \in Live : \E ids \in Ctls(id) : mcy(ids, id)
    \/ \E id \in Live, ph \in Phases : \E ids \in Ctls(id) : mcphase(ids, ph, id)
    \/ \E id \in Live : z(id)
    \/ \E id \in Live : \E ids \in Ctls(id) : mcz(ids, id)
    \/ \E id \in Live : s(id)
    \/ \E id \in Live : \E ids \in Ctls(id) : mcs(ids, id)
    \/ \E id \in Live : sadj(id)
    \/ \E id \in Live : \E ids \in Ctls(id) : mcsadj(ids, id)
    \/ \E id \in Live : t(id)
    \/ \E id \in Live : \E ids \in Ctls(id) : mct(ids, id)
    \/ \E id \in Live : tadj(id)
    \/ \E id \in Live : \E ids \in Ctls(id) : mctadj(ids, id)
    \/ \E id \in Live, th \in Angles : rz(th, id)
    \/ \E id \in Live, th \in Angles : \E ids \in Ctls(id) : mcrz(ids, th, id)
    \/ \E id \in Live : h(id)
    \/ \E id \in Live : \E ids \in Ctls(id) : mch(ids, id)
    \/ \E id \in Live, th \in Angles : rx(th, id)
    \/ \E id \in Live, th \in Angles : \E ids \in Ctls(id) : mcrx(ids, th, id)
    \/ \E id \in Live, th \in Angles : ry(th, id)
    \/ \E id \in Live, th \in Angles : \E ids \in Ctls(id) : mcry(ids, th, id)

SpecValid == InitValid /\ [][NextValid]_vars

\* The GHZ chain of test_large_state (lines 933-945): allocate the control,
\* h on it, then allocate each further qubit and mcx it from the control;
\* measure the control after any number of qubits, then release the qubits,
\* in any order.  The control is the first identifier handed out, 0.
MaxGhzSteps == 3 * MaxGhzQubits + 1

InitGhz == New /\ budget = MaxGhzSteps

NextGhz ==
    \/ /\ \/ last.op = "new"
          \/ last.op \in {"h", "mcx"} /\ Cardinality(DOMAIN id_map) < MaxGhzQubits
       /\ allocate
    \/ last.op = "allocate" /\ Cardinality(DOMAIN id_map) = 1 /\ h(0)
    \/ last.op = "allocate" /\ Cardinality(DOMAIN id_map) > 1 /\ mcx(<<0>>, last.id)
    \/ last.op \in {"h", "mcx"} /\ measure(0)
    \/ last.op \in {"measure", "release"} /\ \E id \in Live : release(id)

SpecGhz == InitGhz /\ [][NextGhz]_vars

(***************************************************************************)
(* Supporting invariants of the number model.                              *)
(***************************************************************************)
\* All stored amplitudes carry the same real scale (see CAdd).
ScaleUniform == \A k1 \in DOMAIN state, k2 \in DOMAIN state : state[k1].r = state[k2].r

\* No stored amplitude is zero or tiny (see IsNearlyZero).
AmplitudesNotTiny ==
    \A k \in DOMAIN state : QLeq(<<1, 0, 1024>>, NormSqr(state[k]))

(***************************************************************************)
(* Properties.                                                             *)
(***************************************************************************)
\* The last call was op and returned normally.
Did(op) == last.op = op /\ last.status = "ok"

\* C1: allocate returns the smallest non-negative integer that is not a live
\* identifier at the call (so it fills the gaps left by releases), and the
\* returned identifier is live afterwards.
C1_AllocateSmallestFree ==
    [][last'.op = "allocate" =>
          /\ last'.status = "ok"
          /\ last'.id \notin DOMAIN id_map
          /\ \A j \in 0 .. last'.id - 1 : j \in DOMAIN id_map
          /\ last'.id \in DOMAIN id_map']_vars

\* allocate has filled a gap: a larger identifier is live.
C1_Witness ==
    /\ Did("allocate")
    /\ \E j \in DOMAIN id_map : j > last.id

\* C2: in every reachable state the identity map is a bijection from the
\* live identifiers onto 0 .. n-1, n the number of live identifiers.
C2_IdMapBijection ==
    LET n == Cardinality(DOMAIN id_map)
    IN  /\ {id_map[i] : i \in DOMAIN id_map} = 0 .. n - 1
        /\ \A i \in DOMAIN id_map, j \in DOMAIN id_map :
               id_map[i] = id_map[j] => i = j

\* After a release the identifiers have a gap, and an identifier sits at a
\* location that is not its value.
C2_Witness ==
    /\ Did("release")
    /\ \E i \in DOMAIN id_map : i >= Cardinality(DOMAIN id_map)
    /\ \E i \in DOMAIN id_map : id_map[i] # i

\* C3: after every completed operation no stored key has a bit set at a
\* position >= the number of live qubits; and in release, after the internal
\* measurement every surviving key has the sampled outcome at the vacated
\* position, so that clearing the bit maps distinct keys to distinct keys and
\* keeps the number of entries.
C3_NoStrayBits ==
    [][/\ \A k \in DOMAIN state' : k < Pow2(Cardinality(DOMAIN id_map'))
       /\ (last'.op = "release" /\ last'.status = "ok") =>
             LET id == last'.ids[1]
                 vacated == Cardinality(DOMAIN id_map) - 1
                 measured == joint_collapse(ReleaseSwapState(state, id_map, id),
                                            {vacated}, last'.res)
             IN  /\ \A k \in DOMAIN measured : Bit(k, vacated) = last'.res
                 /\ DOMAIN state' = {SetBit(k, vacated, FALSE) : k \in DOMAIN measured}
                 /\ Cardinality(DOMAIN state') = Cardinality(DOMAIN measured)
                 /\ \A k \in DOMAIN measured :
                        state'[SetBit(k, vacated, FALSE)] = measured[k]]_vars

\* A release whose internal measurement sampled true, so that the bit had to
\* be cleared, with several entries surviving.
C3_Witness ==
    /\ Did("release")
    /\ last.res
    /\ Cardinality(DOMAIN state) >= 2

\* The sum of the squared magnitudes of all stored amplitudes.
TotalNorm(st) ==
    LET f == [k \in DOMAIN st |-> NormSqr(st[k])]
    IN  QSum(f, DOMAIN st)

Normalized(st) == TotalNorm(st) = QOne

\* The call c is mcphase with a phase whose modulus is not 1.
NonUnitPhase(c) == c.op = "mcphase" /\ ZAbs2(c.phase) # QOne

\* C4 (as claimed): whenever a qubit is live, after every completed public
\* operation, mcphase with any complex phase included, the squared
\* magnitudes of the stored amplitudes sum to 1.
C4_Original == DOMAIN id_map # {} => Normalized(state)

\* C4 (amended): every completed public operation other than mcphase with a
\* phase of modulus different from 1 leaves the squared magnitudes summing
\* to 1 when a qubit is live afterwards, if they did so before or no qubit
\* was live before; so the sum is 1 in every state reached by calls whose
\* mcphase phases all have modulus 1.
C4_NormPreserved ==
    [][(/\ DOMAIN id_map' # {}
        /\ DOMAIN id_map # {} => Normalized(state)
        /\ ~NonUnitPhase(last'))
       => Normalized(state')]_vars

\* A measurement has renormalized by a factor that is not rational: the
\* retained squared magnitudes summed to a number with a sqrt 2 part.
C4_Witness ==
    /\ Did("measure")
    /\ Normalized(state)
    /\ \E k \in DOMAIN state : state[k].r[2] # 0

\* The gate operations of the public surface.
GateOps ==
    {"x", "mcx", "y", "mcy", "mcphase", "z", "mcz", "s", "mcs", "sadj", "mcsadj",
     "t", "mct", "tadj", "mctadj", "rz", "mcrz", "h", "mch",
     "rx", "mcrx", "ry", "mcry"}

\* The identifiers that occur more than once in the list.
Repeated(ids) ==
    {ids[i] : i \in {i \in 1 .. Len(ids) :
                        \E j \in 1 .. Len(ids) : j # i /\ ids[j] = ids[i]}}

\* Some identifier of the list is not live in map.
SomeUnknown(map, ids) == \E i \in 1 .. Len(ids) : ids[i] \notin DOMAIN map

Panicked(c) == c.status \in {"unknown", "duplicate"}

\* C5: every gate operation called with a target or control that is not
\* live, or with the same qubit twice in controls + target, fails with a
\* usage error and leaves the store and the identity map unchanged; it never
\* completes normally.
C5_GateRejectsBadQubits ==
    [][(/\ last'.op \in GateOps
        /\ SomeUnknown(id_map, last'.ids) \/ Repeated(last'.ids) # {})
       => /\ Panicked(last')
          /\ state' = state
          /\ id_map' = id_map]_vars

\* C6: release, measure and swap_qubit_ids with an identifier that is not
\* live, and joint_probability and joint_measure with an identifier that is
\* not live or with a repeated identifier, fail with a usage error, and the
\* store and the identity map are as before the call.
C6_FailsBeforeMutation ==
    [][(\/ /\ last'.op \in {"release", "measure", "swap_qubit_ids",
                            "joint_probability", "joint_measure"}
           /\ SomeUnknown(id_map, last'.ids)
        \/ /\ last'.op \in {"joint_probability", "joint_measure"}
           /\ Repeated(last'.ids) # {})
       => /\ Panicked(last')
          /\ state' = state
          /\ id_map' = id_map]_vars

\* joint_measure was refused for a repeated identifier on a store that holds
\* a superposition.
C6_Witness ==
    /\ last.op = "joint_measure"
    /\ last.status = "duplicate"
    /\ Cardinality(DOMAIN state) >= 2

\* C7: when a gate fails because controls + target contain a duplicate, the
\* error names the duplicated identifier as the caller passed it, also when
\* identifiers sit at locations different from their values.
C7_DuplicateNamesIdentifier ==
    (last.op \in GateOps /\ last.status = "duplicate")
        => last.id \in Repeated(last.ids)

\* The sum of the squared magnitudes of the entries of st whose key has an
\* odd number of set bits among the locations of ids.
OddSum(st, map, ids) ==
    LET odd(k) == Cardinality({i \in 1 .. Len(ids) : Bit(k, map[ids[i]])}) % 2 = 1
        f == [k \in DOMAIN st |-> NormSqr(st[k])]
    IN  QSum(f, {k \in DOMAIN st : odd(k)})

\* C8: when measure or joint_measure returns r, the store afterwards holds
\* exactly the entries of before whose key parity over the measured
\* locations is r, each amplitude the old one times the same factor
\* 1/sqrt(sum of the retained squared magnitudes), and joint_probability of
\* the same qubits is then 1 if r and 0 if not.
C8_MeasureCollapses ==
    [][(last'.op \in {"measure", "joint_measure"} /\ last'.status = "ok") =>
          LET ids == last'.ids
              odd(k) == Cardinality({i \in 1 .. Len(ids) :
                                        Bit(k, id_map[ids[i]])}) % 2 = 1
              kept == {k \in DOMAIN state : odd(k) = last'.res}
              f == [k \in DOMAIN state |-> NormSqr(state[k])]
              total == QSum(f, kept)
          IN  /\ DOMAIN state' = kept
              /\ \A k \in kept :
                    /\ state'[k].c = state[k].c
                    /\ state'[k].r = QMul(state[k].r, QInv(total))
              /\ OddSum(state', id_map', ids) = IF last'.res THEN QOne ELSE QZero
              /\ id_map' = id_map]_vars

\* A joint measurement of two qubits returned true and left a superposition.
C8_Witness ==
    /\ Did("joint_measure")
    /\ Len(last.ids) = 2
    /\ last.res
    /\ Cardinality(DOMAIN state) >= 2

\* C9 (as claimed): joint_probability of distinct live identifiers returns
\* the sum of the squared magnitudes of the entries with an odd number of set
\* bits among their locations, the result lies in [0, 1] in every reachable
\* state, and the call changes neither the store nor the identity map.
C9_Original ==
    [][(last'.op = "joint_probability" /\ last'.status = "ok") =>
          /\ last'.prob = OddSum(state, id_map, last'.ids)
          /\ QLeq(QZero, last'.prob)
          /\ QLeq(last'.prob, QOne)
          /\ state' = state
          /\ id_map' = id_map]_vars

\* C9 (amended): the same, with the result at least 0 and at most the sum of
\* all stored squared magnitudes: it lies in [0, 1] in the states where that
\* sum is 1, which are the states reached by calls whose mcphase phases all
\* have modulus 1 (C4).
C9_JointProbability ==
    [][(last'.op = "joint_probability" /\ last'.status = "ok") =>
          /\ last'.prob = OddSum(state, id_map, last'.ids)
          /\ QLeq(QZero, last'.prob)
          /\ QLeq(last'.prob, TotalNorm(state))
          /\ Normalized(state) => QLeq(last'.prob, QOne)
          /\ state' = state
          /\ id_map' = id_map]_vars

\* joint_probability of two qubits returned a probability strictly between
\* 0 and 1.
C9_Witness ==
    /\ Did("joint_probability")
    /\ Len(last.ids) = 2
    /\ QLess(QZero, last.prob)
    /\ QLess(last.prob, QOne)

\* The entries of the store st as seen by the identifiers of S under map:
\* the bit of each identifier, with the amplitude.
View(st, map, S) ==
    {<<[j \in S |-> Bit(k, map[j])], st[k]>> : k \in DOMAIN st}

\* C10: after release(id) of a live identifier the store is the store of
\* before collapsed on one sampled value of the released qubit, with that
\* qubit's bit removed: every surviving identifier has, in every retained
\* entry, the bit it had before.  Only the identifier that held the last
\* location changes location (to the released qubit's), the others keep
\* theirs.
C10_ReleaseTracesOut ==
    [][(last'.op = "release" /\ last'.status = "ok") =>
          LET id == last'.ids[1]
              surviving == DOMAIN id_map \ {id}
              last_loc == Cardinality(DOMAIN id_map) - 1
              kept == {k \in DOMAIN state : Bit(k, id_map[id]) = last'.res}
              f == [k \in DOMAIN state |-> NormSqr(state[k])]
              total == QSum(f, kept)
              collapsed == [k \in kept |->
                               [c |-> state[k].c,
                                r |-> QMul(state[k].r, QInv(total))]]
          IN  /\ DOMAIN id_map' = surviving
              /\ View(state', id_map', surviving) = View(collapsed, id_map, surviving)
              /\ Cardinality(DOMAIN state') = Cardinality(kept)
              /\ \A j \in surviving :
                    id_map'[j] = IF id_map[j] = last_loc THEN id_map[id]
                                 ELSE id_map[j]]_vars

\* The qubit at location 0 of three was released from a superposition: the
\* identifier of the last location has moved to location 0, the other stays.
C10_Witness ==
    /\ Did("release")
    /\ last.ids = <<0>>
    /\ DOMAIN id_map = {1, 2}
    /\ id_map[2] = 0
    /\ id_map[1] = 1
    /\ Cardinality(DOMAIN state) >= 2

\* The controls and the target of a recorded gate call.
CtlsOf(c) == SubSeq(c.ids, 1, Len(c.ids) - 1)

TargetOf(c) == c.ids[Len(c.ids)]

\* The locations of the controls and of the target of the gate call c in map.
CtlLocs(map, c) == Range(Locs(map, CtlsOf(c)))

TargetLoc(map, c) == map[TargetOf(c)]

\* The transform of the local gates and of h, by the name of the operation.
KindOf(op) ==
    CASE op \in {"x", "mcx"} -> "x"
      [] op \in {"y", "mcy"} -> "y"
      [] op \in {"z", "mcz"} -> "z"
      [] op \in {"s", "mcs"} -> "s"
      [] op \in {"sadj", "mcsadj"} -> "sadj"
      [] op \in {"t", "mct"} -> "t"
      [] op \in {"tadj", "mctadj"} -> "tadj"
      [] op \in {"h", "mch"} -> "h"

AdjointKind(op) ==
    CASE op = "s" -> "sadj"
      [] op = "sadj" -> "s"
      [] op = "t" -> "tadj"
      [] op = "tadj" -> "t"

C13_GhzChain ==
    /\ last.status \in {"new", "ok"}
    /\ (\/ last.op \in {"h", "mcx"}
        \/ last.op = "allocate" /\ Cardinality(DOMAIN id_map) >= 2)
          => Cardinality(DOMAIN state) = 2
    /\ last.op \in {"measure", "release"}
          => /\ Cardinality(DOMAIN state) = 1
             /\ \A k \in DOMAIN state, q \in DOMAIN id_map :
                    Bit(k, id_map[q]) = last.res

\* The longest chain was built, its control measured as 1, and all its
\* qubits released.
C13_Witness ==
    /\ Did("release")
    /\ last.res
    /\ DOMAIN id_map = {}
    /\ budget = 0

\* C14: after dump the live identifier that is k-th in ascending order is
\* at location k, so that locations ascend with the identifiers; the store
\* seen per identifier (the amplitude of every assignment of bit values to
\* the identifiers) is the one of before the call and has as many entries;
\* and a second dump changes neither the store nor the map.
C14_DumpOrders ==
    [][last'.op = "dump" =>
          /\ last'.status = "ok"
          /\ DOMAIN id_map' = DOMAIN id_map
          /\ \A a \in DOMAIN id_map :
                id_map'[a] = Cardinality({b \in DOMAIN id_map : b < a})
          /\ \A a \in DOMAIN id_map, b \in DOMAIN id_map :
                a < b => id_map'[a] < id_map'[b]
          /\ View(state', id_map', DOMAIN id_map) = View(state, id_map, DOMAIN id_map)
          /\ Cardinality(DOMAIN state') = Cardinality(DOMAIN state)
          /\ Dumped(state', id_map') = [st |-> state', map |-> id_map']]_vars

\* dump has acted on identifiers with a gap (they are not their own
\* locations) and on a store in which two live qubits differ in some entry.
C14_Witness ==
    /\ Did("dump")
    /\ \E a \in DOMAIN id_map : id_map[a] # a
    /\ Cardinality(DOMAIN state) >= 2
    /\ \E k \in DOMAIN state, a \in DOMAIN id_map, b \in DOMAIN id_map :
          Bit(k, id_map[a]) # Bit(k, id_map[b])

\* C15: swap_qubit_ids(a, b) on two live identifiers gives a the location
\* of b and b the location of a, leaves the location of every other
\* identifier and the store as they were; with a = b nothing changes.
C15_SwapIdsFrame ==
    [][(last'.op = "swap_qubit_ids" /\ last'.status = "ok") =>
          LET a == last'.ids[1]
              b == last'.ids[2]
          IN  /\ DOMAIN id_map' = DOMAIN id_map
              /\ id_map'[a] = id_map[b]
              /\ id_map'[b] = id_map[a]
              /\ \A j \in DOMAIN id_map \ {a, b} : id_map'[j] = id_map[j]
              /\ state' = state
              /\ a = b => id_map' = id_map]_vars

\* Two different identifiers were swapped while a third was live and the
\* store held a superposition.
C15_Witness ==
    /\ Did("swap_qubit_ids")
    /\ last.ids[1] # last.ids[2]
    /\ Cardinality(DOMAIN id_map) = 3
    /\ Cardinality(DOMAIN state) >= 2

\* The key k with the bits at positions a and b exchanged.
Exchanged(k, a, b) == SetBit(SetBit(k, a, Bit(k, b)), b, Bit(k, a))

\* C16: on every reachable store and for every two locations,
\* swap_qubit_state maps each stored key to the key with the two bits
\* exchanged and keeps its amplitude (a key whose two bits are equal stays,
\* the others get both bits flipped); the result has as many entries as the
\* store, and swap_qubit_state applied to the result gives the store back.
C16_SwapStatePermutes ==
    \A a \in 0 .. MaxQubits - 1, b \in 0 .. MaxQubits - 1 :
        LET out == swap_qubit_state(state, a, b)
        IN  /\ DOMAIN out = {Exchanged(k, a, b) : k \in DOMAIN state}
            /\ \A k \in DOMAIN state :
                  /\ out[Exchanged(k, a, b)] = state[k]
                  /\ Bit(k, a) = Bit(k, b) => k \in DOMAIN out /\ out[k] = state[k]
                  /\ Bit(k, a) # Bit(k, b)
                        => /\ Exchanged(k, a, b) # k
                           /\ Exchanged(k, a, b) = FlipBit(FlipBit(k, a), b)
            /\ Cardinality(DOMAIN out) = Cardinality(DOMAIN state)
            /\ swap_qubit_state(out, a, b) = state

\* release has acted (it swaps the released location with the last one),
\* and the store holds a key that the swap of locations 0 and 1 moves next
\* to one that it keeps.
C16_Witness ==
    /\ Did("release")
    /\ Cardinality(DOMAIN id_map) = 2
    /\ \E k1 \in DOMAIN state, k2 \in DOMAIN state :
          /\ Bit(k1, 0) # Bit(k1, 1)
          /\ Bit(k2, 0) = Bit(k2, 1)

\* The stores st1 and st2 hold the same amplitude for every key, an absent
\* entry counting as amplitude 0.
SameDense(st1, st2) ==
    \A k \in DOMAIN st1 \cup DOMAIN st2 :
        LET zero1 == k \notin DOMAIN st1 \/ st1[k].c = ZZero
            zero2 == k \notin DOMAIN st2 \/ st2[k].c = ZZero
        IN  IF zero1 \/ zero2 THEN zero1 /\ zero2 ELSE st1[k] = st2[k]

\* C17: for the degenerate angles theta = 0, pi and 2 pi, the store after
\* rx, ry, mcrx or mcry with valid controls and target holds the same
\* amplitudes as the store that the merge over the pairs of entries builds
\* from the rotation's own matrix m00 = cos(theta/2), m01 = -i sin(theta/2),
\* m10 per sign_flip, with the same controls.
C17_ShortcutIsRotation ==
    [][(/\ last'.op \in {"rx", "mcrx", "ry", "mcry"}
        /\ last'.status = "ok"
        /\ last'.theta \in {0, 2, 4}
        /\ resolve_and_check_qubits(id_map, TargetOf(last'), CtlsOf(last')).status = "ok")
       => SameDense(state',
                    RotState(state, CtlLocs(id_map, last'), TargetLoc(id_map, last'),
                             last'.theta, last'.op \in {"ry", "mcry"}))]_vars

\* The unscaled part of the amplitude of key k in st, 0 when k is absent.
CAt(st, k) == IF k \in DOMAIN st THEN st[k].c ELSE ZZero

\* C18: for mch with valid controls and target on a reachable store, the
\* new store is the dense result of the controlled Hadamard: for every key
\* with all control bits set, with k0 and k1 the key with the target bit
\* cleared and set and v0, v1 their old amplitudes (0 if absent), the new
\* amplitude is (v0 + v1)/sqrt 2 at k0 and (v0 - v1)/sqrt 2 at k1; every key
\* with a control bit clear keeps its amplitude; no stored amplitude is 0,
\* and the real scale of the amplitudes is the one of before.
C18_MchDense ==
    [][(last'.op \in {"h", "mch"} /\ last'.status = "ok") =>
          LET cl == CtlLocs(id_map, last')
              tl == TargetLoc(id_map, last')
              n == Cardinality(DOMAIN id_map)
              v0(k) == CAt(state, SetBit(k, tl, FALSE))
              v1(k) == CAt(state, SetBit(k, tl, TRUE))
              ref(k) == IF \E l \in cl : ~Bit(k, l) THEN CAt(state, k)
                        ELSE IF Bit(k, tl)
                        THEN ZMul(ZAdd(v0(k), ZNeg(v1(k))), ZFrac1Sqrt2)
                        ELSE ZMul(ZAdd(v0(k), v1(k)), ZFrac1Sqrt2)
          IN  /\ \A k \in 0 .. Pow2(n) - 1 : CAt(state', k) = ref(k)
              /\ \A k \in DOMAIN state' :
                    /\ k < Pow2(n)
                    /\ state'[k].c # ZZero
                    /\ \A j \in DOMAIN state : state'[k].r = state[j].r]_vars

\* A controlled h has acted on a store with entries of both kinds: it left
\* an entry with the control bit clear and one with the control bit set,
\* three in all (a pair was merged into one entry).
C18_Witness ==
    /\ Did("mch")
    /\ Len(last.ids) = 2
    /\ Cardinality(DOMAIN state) = 3
    /\ \E k1 \in DOMAIN state, k2 \in DOMAIN state :
          /\ Bit(k1, id_map[last.ids[1]])
          /\ ~Bit(k2, id_map[last.ids[1]])

C20_AllocateFresh ==
    [][last'.op = "allocate" =>
          LET q == last'.id
              n == Cardinality(DOMAIN id_map)
          IN  /\ last'.status = "ok"
              /\ DOMAIN id_map' = DOMAIN id_map \cup {q}
              /\ id_map'[q] = n
              /\ \A k \in DOMAIN state' : ~Bit(k, n)
              /\ check_joint_probability(state', {id_map'[q]}) = QZero
              /\ n > 0 => /\ state' = state
                          /\ \A j \in DOMAIN id_map : id_map'[j] = id_map[j]
              /\ n = 0 => /\ DOMAIN state' = {0}
                          /\ state'[0] = [c |-> ZOne, r |-> QOne]]_vars

\* allocate has handed out 0 again while 1 was live (0 had been released)
\* and the store held a superposition: the new qubit is at location 1.
C20_Witness ==
    /\ Did("allocate")
    /\ last.id = 0
    /\ DOMAIN id_map = {0, 1}
    /\ id_map[0] = 1
    /\ Cardinality(DOMAIN state) >= 2

\* The operations that measure: measure, joint_measure, and release with
\* its internal measurement.
Measures(c) == c.op \in {"measure", "joint_measure", "release"} /\ c.status = "ok"

\* The keys of st whose parity over the locations of ids in map is res.
KeptKeys(st, map, ids, res) ==
    {k \in DOMAIN st :
        (Cardinality({i \in 1 .. Len(ids) : Bit(k, map[ids[i]])}) % 2 = 1) = res}

====
